---- MODULE Spec2Model ----
(***************************************************************************)
(* A model of src/dotEnv.py: the lexer (DotENV.__tokenize__ and its scan   *)
(* routines), the value parser (DotENV.__parser__), the class-level        *)
(* environment mapping, the flatten / nest / export engine and __str__.    *)
(*                                                                         *)
(* A text is a sequence of characters; a character is a one-character      *)
(* string, except U20AC, which stands for the code point U+20AC (a symbol  *)
(* above "\xff" that is neither alphabetic nor a digit), and RAW, which    *)
(* stands for the backtick, Token.RAW.                                     *)
(***************************************************************************)
EXTENDS Integers, Sequences, FiniteSets, TLC

VARIABLES
    content,        \* self.content: the text being scanned
    maxLength,      \* self.maxLength
    self_current,   \* self.current: the scan routines' cursor
    current,        \* the local current of __tokenize__
    tokens,         \* the local tokens of __tokenize__, then self.tokens
    ptr,            \* the local current of __parser__
    token_cache,    \* the local token_cache of __parser__
    name,           \* the local name of __parser__
    value,          \* the local value of __parser__ (array under collection)
    env,            \* DotENV.env: the class attribute every instance shares
    environ,        \* os.environ, as the ordered list of stores made into it
    pc,             \* where the run is: tokenize, parser, done, export, ...
    raised,         \* the exception that ended the run, or "none"
    input,          \* what the text or the call was built from (read-only)
    live,           \* the DotENV instances constructed so far
    last,           \* the last operation of a session, and its instance
    flat,           \* what flatten_nested_dict returned
    nested,         \* what __nest__ returned
    str_text        \* the local text of __str__: the lines it has made

vars == <<content, maxLength, self_current, current, tokens, ptr, token_cache,
          name, value, env, environ, pc, raised, input, live, last, flat,
          nested, str_text>>

----------------------------------------------------------------------------
(* Bounds of the model *)

MaxLen == 4
MaxLines == 2
MaxTokens == 4
MaxDepth == 2

----------------------------------------------------------------------------
(* Characters *)

DQ == "\""
SQ == "'"
NL == "\n"
U20AC == "U20AC"
RAW == "RAW"

Digits == {"0", "1", "2", "3", "4", "5", "6", "7", "8", "9"}
Letters == {"a", "b", "h", "i", "x", "y", "z"}
HighSymbols == {U20AC}

\* is_numeric(ch): "0" <= ch <= "9"
is_numeric(ch) == ch \in Digits

\* is_letter(ch): an ASCII letter, or any code point from "\xff" up
is_letter(ch) == ch \in Letters \/ ch \in HighSymbols

\* is_whitespace(ch)
is_whitespace(ch) == ch \in {NL, " ", "\r", "\t"}

\* str.isalpha() or str.isdigit(), as __parser_key__ tests them: U+20AC is
\* neither
isalnum(ch) == ch \in Letters \/ ch \in Digits

----------------------------------------------------------------------------
(* Tokens: EnvToken(kind, value) *)

EnvToken(kind, v) == [kind |-> kind, value |-> v]

\* The result of a scan routine: the token returned, self.current afterwards
\* and the exception raised ("none" when it returned).
Scan(tok, cur, exc) == [tok |-> tok, cur |-> cur, raised |-> exc]

NoToken == EnvToken("eof", <<>>)

\* content[i] for a Python index i >= 0; the caller tests the range
At(text, i) == text[i + 1]

----------------------------------------------------------------------------
(* The scan routines.  Each starts at the index the dispatch loop gives it, *)
(* moves self.current and returns a token, or raises IndexError on a read  *)
(* of content[i] with i >= len(content).                                   *)

\* __parser_number__: a run of digits and dots; Text when it holds two dots
\* or more, Number otherwise
RECURSIVE number_loop(_, _, _, _)
number_loop(text, i, v, dot) ==
    IF i < Len(text) /\ (is_numeric(At(text, i)) \/ At(text, i) = ".")
    THEN number_loop(text, i + 1, Append(v, At(text, i)),
                     IF At(text, i) = "." THEN dot + 1 ELSE dot)
    ELSE [value |-> v, cur |-> i, dot |-> dot]

\* the token with Text for a run that holds one dot too
parser_number_one_dot(text, cur) ==
    LET r == number_loop(text, cur, <<>>, 0)
    IN  Scan(EnvToken(IF r.dot > 0 THEN "text" ELSE "number", r.value),
             r.cur, "none")

__parser_number__(text, cur) ==
    LET r == number_loop(text, cur, <<>>, 0)
    IN  Scan(EnvToken(IF r.dot > 1 THEN "text" ELSE "number", r.value),
             r.cur, "none")

\* __parser_key__: a run of alphanumeric characters; the run is empty when
\* the character that led here is a letter for is_letter only
RECURSIVE key_loop(_, _, _)
key_loop(text, i, v) ==
    IF i < Len(text) /\ isalnum(At(text, i))
    THEN key_loop(text, i + 1, Append(v, At(text, i)))
    ELSE [value |-> v, cur |-> i]

__parser_key__(text, cur) ==
    LET r == key_loop(text, cur, <<>>)
    IN  Scan(EnvToken("env", r.value), r.cur, "none")

\* __parser_string__: line 140 reads content[current + 1] and line 145 reads
\* content[self.current] after each step, neither behind a range test
RECURSIVE string_loop(_, _, _, _)
string_loop(text, entry, i, v) ==
    \* here ch = content[i] has been read, i < len(content)
    IF At(text, i) # entry
    THEN IF i + 1 >= Len(text)
         THEN Scan(NoToken, i + 1, "IndexError")
         ELSE string_loop(text, entry, i + 1, Append(v, At(text, i)))
    ELSE Scan(EnvToken("text", v), i + 1, "none")

__parser_string__(text, entry, cur) ==
    IF cur + 1 >= Len(text)
    THEN Scan(NoToken, cur + 1, "IndexError")
    ELSE string_loop(text, entry, cur + 1, <<>>)

\* __parser_raw_string__: line 234 reads content[current + 1] with no range
\* test; the loop's reads are guarded, so a raw string with no closing
\* backtick runs to the end of the text and is returned as Text
RECURSIVE raw_loop(_, _, _)
raw_loop(text, i, v) ==
    IF i < Len(text) /\ At(text, i) # RAW
    THEN raw_loop(text, i + 1, Append(v, At(text, i)))
    ELSE [value |-> v, cur |-> i]

\* the raw string with the cursor left on the closing backtick
raw_string_unclosed(text, cur) ==
    IF cur + 1 >= Len(text)
    THEN Scan(NoToken, cur + 1, "IndexError")
    ELSE LET r == raw_loop(text, cur + 1, <<>>)
         IN  Scan(EnvToken("text", r.value), r.cur, "none")

__parser_raw_string__(text, cur) ==
    IF cur + 1 >= Len(text)
    THEN Scan(NoToken, cur + 1, "IndexError")
    ELSE LET r == raw_loop(text, cur + 1, <<>>)
         IN  Scan(EnvToken("text", r.value), r.cur + 1, "none")

\* __parser_comment__: called with the index after the #; line 246 reads
\* content[current] with no range test; the newline is not consumed
RECURSIVE comment_loop(_, _, _)
comment_loop(text, i, v) ==
    IF i < Len(text) /\ At(text, i) # NL
    THEN comment_loop(text, i + 1, Append(v, At(text, i)))
    ELSE [value |-> v, cur |-> i]

__parser_comment__(text, cur) ==
    IF cur >= Len(text)
    THEN Scan(NoToken, cur, "IndexError")
    ELSE LET r == comment_loop(text, cur, <<>>)
         IN  Scan(EnvToken("comment", r.value), r.cur, "none")

\* Stack: push counts an opening bracket; pop tests its argument against
\* __push__ too (line 34), so a closing bracket never lowers the count
Stack__push__ == {"{", "[", "(", "<"}
Stack__pop__ == {"}", "]", ")", ">"}
push(stack, ch) == IF ch \in Stack__push__ THEN stack + 1 ELSE stack
pop(stack, ch) == IF ch \in Stack__push__ THEN stack - 1 ELSE stack
balance(stack) == stack = 0

\* __parser_json__: every character from the { on, until the stack balances
\* or the text ends
RECURSIVE json_loop(_, _, _, _)
json_loop(text, i, v, stack) ==
    IF i < Len(text)
    THEN LET ch == At(text, i)
             s1 == IF ch = "{" THEN push(stack, ch) ELSE stack
             s2 == IF ch = "}" THEN pop(s1, ch) ELSE s1
         IN  IF balance(s2)
             THEN [value |-> Append(v, ch), cur |-> i]
             ELSE json_loop(text, i + 1, Append(v, ch), s2)
    ELSE [value |-> v, cur |-> i]

__parser_json__(text, cur) ==
    LET r == json_loop(text, cur, <<>>, 0)
    IN  Scan(EnvToken("json", r.value), r.cur + 1, "none")

----------------------------------------------------------------------------
(* Values: what the environment mapping holds.  A Python str is a sequence *)
(* of characters; a float is mantissa / 10^scale with the trailing zeros   *)
(* of the fraction dropped (1.50 and 1.5 are one float); an int is what    *)
(* json.loads gives for a number with no fraction; a dict keeps its keys   *)
(* in insertion order.                                                     *)

StrVal(v) == [kind |-> "str", val |-> v]
IntVal(n) == [kind |-> "int", val |-> n]
ListVal(v) == [kind |-> "list", val |-> v]
DictVal(v) == [kind |-> "dict", val |-> v]

RECURSIVE Normal(_, _)
Normal(m, scale) ==
    IF scale > 0 /\ m % 10 = 0 THEN Normal(m \div 10, scale - 1)
    ELSE <<m, scale>>

FloatVal(m, scale) == [kind |-> "float", val |-> Normal(m, scale)]

DigitVal(ch) ==
    CASE ch = "0" -> 0 [] ch = "1" -> 1 [] ch = "2" -> 2 [] ch = "3" -> 3
      [] ch = "4" -> 4 [] ch = "5" -> 5 [] ch = "6" -> 6 [] ch = "7" -> 7
      [] ch = "8" -> 8 [] ch = "9" -> 9

\* float(s) for s a run of digits with at most one dot, as __parser_number__
\* returns it in a Number token: the digits before and after the dot
RECURSIVE float_loop(_, _, _, _, _)
float_loop(s, i, m, scale, dotted) ==
    IF i > Len(s) THEN FloatVal(m, scale)
    ELSE IF s[i] = "." THEN float_loop(s, i + 1, m, scale, TRUE)
    ELSE float_loop(s, i + 1, 10 * m + DigitVal(s[i]),
                    IF dotted THEN scale + 1 ELSE scale, dotted)

float(s) == float_loop(s, 1, 0, 0, FALSE)

\* d[k] = v on a dict: the value is replaced in place when the key is there,
\* the pair is added at the end when it is not
HasKey(d, k) == \E i \in 1..Len(d) : d[i].key = k

\* a store that keeps the value a key already has
dict_set_keep(d, k, v) ==
    IF HasKey(d, k) THEN d ELSE Append(d, [key |-> k, val |-> v])

dict_set(d, k, v) ==
    IF HasKey(d, k)
    THEN [i \in 1..Len(d) |-> IF d[i].key = k THEN [key |-> k, val |-> v]
                                              ELSE d[i]]
    ELSE Append(d, [key |-> k, val |-> v])

\* d[k] for a key that is there
dict_get(d, k) == d[CHOOSE i \in 1..Len(d) : d[i].key = k].val

----------------------------------------------------------------------------
(* json.loads, on the texts the model's alphabet can spell: objects,       *)
(* arrays, strings without escapes, unsigned numbers without exponent,     *)
(* whitespace between them.  A result is [ok, val, pos]: pos is the index  *)
(* (from 1) after the value.                                               *)

JsonFail == [ok |-> FALSE, val |-> <<>>, pos |-> 0]
JsonOk(v, pos) == [ok |-> TRUE, val |-> v, pos |-> pos]

RECURSIVE skip_ws(_, _)
skip_ws(s, i) ==
    IF i <= Len(s) /\ s[i] \in {" ", "\t", NL, "\r"} THEN skip_ws(s, i + 1)
    ELSE i

\* the first index from i on that holds no digit
RECURSIVE digits_end(_, _)
digits_end(s, i) ==
    IF i <= Len(s) /\ s[i] \in Digits THEN digits_end(s, i + 1) ELSE i

RECURSIVE int_of(_, _, _, _)
int_of(s, i, j, acc) ==
    IF i >= j THEN acc ELSE int_of(s, i + 1, j, 10 * acc + DigitVal(s[i]))

\* a number at s[i], a digit: (0|[1-9]\d*)(\.\d+)?; an int without the
\* fraction, a float with it
json_number(s, i) ==
    LET ie == IF s[i] = "0" THEN i + 1 ELSE digits_end(s, i)
        fe == IF ie <= Len(s) /\ s[ie] = "." THEN digits_end(s, ie + 1)
              ELSE ie
    IN  IF fe > ie + 1
        THEN JsonOk(float(SubSeq(s, i, fe - 1)), fe)
        ELSE JsonOk(IntVal(int_of(s, i, ie, 0)), ie)

\* a string whose opening quote is s[i]: up to the next quote; a control
\* character inside it is an error
RECURSIVE json_string(_, _, _)
json_string(s, i, acc) ==
    IF i + 1 > Len(s) \/ s[i + 1] \in {NL, "\r", "\t"} THEN JsonFail
    ELSE IF s[i + 1] = DQ THEN JsonOk(acc, i + 2)
    ELSE json_string(s, i + 1, Append(acc, s[i + 1]))

RECURSIVE json_value(_, _)
RECURSIVE json_members(_, _, _)
RECURSIVE json_items(_, _, _)

\* the pairs of an object, from the quote of a key on
json_members(s, i, acc) ==
    IF i > Len(s) \/ s[i] # DQ THEN JsonFail
    ELSE LET k == json_string(s, i, <<>>)
             c == skip_ws(s, k.pos)
         IN  IF ~k.ok \/ c > Len(s) \/ s[c] # ":" THEN JsonFail
             ELSE LET v == json_value(s, skip_ws(s, c + 1))
                      e == skip_ws(s, v.pos)
                  IN  IF ~v.ok \/ e > Len(s) THEN JsonFail
                      ELSE IF s[e] = "}"
                      THEN JsonOk(DictVal(dict_set(acc, k.val, v.val)), e + 1)
                      ELSE IF s[e] = ","
                      THEN json_members(s, skip_ws(s, e + 1),
                                        dict_set(acc, k.val, v.val))
                      ELSE JsonFail

\* the elements of an array, from the first character of an element on
json_items(s, i, acc) ==
    LET v == json_value(s, i)
        e == skip_ws(s, v.pos)
    IN  IF ~v.ok \/ e > Len(s) THEN JsonFail
        ELSE IF s[e] = "]" THEN JsonOk(ListVal(Append(acc, v.val)), e + 1)
        ELSE IF s[e] = "," THEN json_items(s, skip_ws(s, e + 1),
                                           Append(acc, v.val))
        ELSE JsonFail

json_value(s, i) ==
    IF i > Len(s) THEN JsonFail
    ELSE IF s[i] = "{"
    THEN LET j == skip_ws(s, i + 1)
         IN  IF j <= Len(s) /\ s[j] = "}" THEN JsonOk(DictVal(<<>>), j + 1)
             ELSE json_members(s, j, <<>>)
    ELSE IF s[i] = "["
    THEN LET j == skip_ws(s, i + 1)
         IN  IF j <= Len(s) /\ s[j] = "]" THEN JsonOk(ListVal(<<>>), j + 1)
             ELSE json_items(s, j, <<>>)
    ELSE IF s[i] = DQ
    THEN LET r == json_string(s, i, <<>>)
         IN  IF r.ok THEN JsonOk(StrVal(r.val), r.pos) ELSE JsonFail
    ELSE IF s[i] \in Digits THEN json_number(s, i)
    ELSE JsonFail

\* json.loads(s): one value, whitespace around it, nothing after it
json_loads(s) ==
    LET v == json_value(s, skip_ws(s, 1))
    IN  IF v.ok /\ skip_ws(s, v.pos) = Len(s) + 1 THEN v ELSE JsonFail

----------------------------------------------------------------------------
(* __tokenize__: one iteration of the dispatch loop, on the lexer's state  *)
(* [content, current, self_current, tokens, raised].                       *)

LexState(text) ==
    [content |-> text, current |-> 0, self_current |-> 0, tokens |-> <<>>,
     raised |-> "none"]

\* tokens.append(<scan routine>(current)); current = self.current
Emit(L, r) ==
    IF r.raised # "none"
    THEN [L EXCEPT !.self_current = r.cur, !.raised = r.raised]
    ELSE [L EXCEPT !.tokens = Append(@, r.tok), !.current = r.cur,
                   !.self_current = r.cur]

\* tokens.append(EnvToken(kind, ch)); current += 1
Single(L, kind) ==
    [L EXCEPT !.tokens = Append(@, EnvToken(kind, <<At(L.content, L.current)>>)),
              !.current = @ + 1]

tokenize_step(L) ==
    LET text == L.content
        cur == L.current
        ch == At(text, cur)
    IN  CASE is_numeric(ch) -> Emit(L, __parser_number__(text, cur))
          [] is_letter(ch) -> Emit(L, __parser_key__(text, cur))
          [] ch = "#" ->
               LET h == Single(L, "hash")
               IN  Emit(h, __parser_comment__(text, h.current))
          [] ch \in {DQ, SQ} -> Emit(L, __parser_string__(text, ch, cur))
          [] ch = RAW -> Emit(L, __parser_raw_string__(text, cur))
          [] ch \in {"[", "]"} -> Single(L, "brackets")
          [] ch = "{" -> Emit(L, __parser_json__(text, cur))
          [] ch = "," -> Single(L, "commas")
          [] ch = "=" -> Single(L, "equal")
          [] OTHER -> [L EXCEPT !.current = @ + 1]

\* A loop that ends appends at most one token for each character it has
\* passed, so a run that holds more tokens than the text has characters has
\* met a character the loop does not advance over and never ends.
Stuck(L) == Len(L.tokens) > Len(L.content)

\* the loop of __tokenize__ to its end; NoReturn stands for the run that
\* never ends
RECURSIVE tokenize_run(_)
tokenize_run(L) ==
    IF L.raised # "none" \/ L.current >= Len(L.content) THEN L
    ELSE IF Stuck(L) THEN [L EXCEPT !.raised = "NoReturn"]
    ELSE tokenize_run(tokenize_step(L))

__tokenize__(text) == tokenize_run(LexState(text))

----------------------------------------------------------------------------
(* __parser__: one test of a loop condition and the branch it leads to, on *)
(* the parser's state [tokens, ptr, token_cache, name, value, env, pc,     *)
(* raised]; pc is "parser" in the outer loop and "collect" in the loop of  *)
(* lines 166-182 that collects an array.                                   *)

ParserState(toks, e) ==
    [tokens |-> toks, ptr |-> 0, token_cache |-> <<>>, name |-> <<>>,
     value |-> <<>>, env |-> e, pc |-> "parser", raised |-> "none"]

\* self.env[name] = v; name = ""  (under "if name:")
Assign(P, v) ==
    IF P.name # <<>>
    THEN [P EXCEPT !.env = dict_set(@, P.name, v), !.name = <<>>]
    ELSE P

\* the body of the outer loop for tokens[ptr], up to "current += 1"
parser_outer(P) ==
    LET tok == P.tokens[P.ptr + 1]
        next(Q) == [Q EXCEPT !.ptr = @ + 1]
    IN  CASE tok.kind = "env" ->
               next([P EXCEPT !.token_cache = Append(@, tok)])
          [] tok.kind = "brackets" ->
               IF P.ptr + 1 >= Len(P.tokens)
               THEN next(P)
               ELSE [P EXCEPT !.ptr = @ + 1, !.value = <<>>, !.pc = "collect"]
          [] tok.kind = "equal" ->
               IF P.token_cache # <<>>
               THEN next([P EXCEPT
                            !.name = P.token_cache[Len(P.token_cache)].value,
                            !.token_cache = SubSeq(@, 1, Len(@) - 1)])
               ELSE next(P)
          [] tok.kind = "number" -> next(Assign(P, float(tok.value)))
          [] tok.kind = "text" -> next(Assign(P, StrVal(tok.value)))
          [] tok.kind = "json" ->
               IF P.name = <<>> THEN next(P)
               ELSE LET r == json_loads(tok.value)
                    IN  IF r.ok THEN next(Assign(P, r.val))
                        ELSE [P EXCEPT !.raised = "JSONDecodeError"]
          [] OTHER -> next(P)

\* the collecting loop with a Number token appended as its text
parser_collect_raw(P) ==
    IF P.ptr < Len(P.tokens) /\ P.tokens[P.ptr + 1].kind # "brackets"
    THEN LET tok == P.tokens[P.ptr + 1]
         IN  CASE tok.kind = "commas" -> [P EXCEPT !.ptr = @ + 1]
               [] OTHER ->
                    [P EXCEPT !.value = Append(@, StrVal(tok.value)),
                              !.ptr = @ + 1]
    ELSE [Assign(P, ListVal(P.value)) EXCEPT !.ptr = @ + 1, !.pc = "parser"]

\* the collecting loop with a Commas token left where it is
parser_collect_stay(P) ==
    IF P.ptr < Len(P.tokens) /\ P.tokens[P.ptr + 1].kind # "brackets"
    THEN LET tok == P.tokens[P.ptr + 1]
         IN  CASE tok.kind = "number" ->
                    [P EXCEPT !.value = Append(@, float(tok.value)),
                              !.ptr = @ + 1]
               [] tok.kind = "commas" -> P
               [] OTHER ->
                    [P EXCEPT !.value = Append(@, StrVal(tok.value)),
                              !.ptr = @ + 1]
    ELSE [Assign(P, ListVal(P.value)) EXCEPT !.ptr = @ + 1, !.pc = "parser"]

\* the loop that collects an array: one element, or its end (a Brackets
\* token, or no token left), where the array is assigned and the outer
\* loop's "current += 1" follows
parser_collect(P) ==
    IF P.ptr < Len(P.tokens) /\ P.tokens[P.ptr + 1].kind # "brackets"
    THEN LET tok == P.tokens[P.ptr + 1]
         IN  CASE tok.kind = "number" ->
                    [P EXCEPT !.value = Append(@, float(tok.value)),
                              !.ptr = @ + 1]
               [] tok.kind = "commas" -> [P EXCEPT !.ptr = @ + 1]
               [] OTHER ->
                    [P EXCEPT !.value = Append(@, StrVal(tok.value)),
                              !.ptr = @ + 1]
    ELSE [Assign(P, ListVal(P.value)) EXCEPT !.ptr = @ + 1, !.pc = "parser"]

parser_step(P) ==
    IF P.pc = "collect" THEN parser_collect(P) ELSE parser_outer(P)

\* whether the parser has a step left to take
parser_running(P) ==
    /\ P.raised = "none"
    /\ P.pc = "collect" \/ P.ptr < Len(P.tokens)

RECURSIVE parser_run(_)
parser_run(P) == IF parser_running(P) THEN parser_run(parser_step(P)) ELSE P

__parser__(toks, e) == parser_run(ParserState(toks, e))

\* DotENV(text), with DotENV.env = e before: the mapping afterwards and the
\* exception that ended the construction, if one did
__init__(text, e) ==
    LET L == __tokenize__(text)
    IN  IF L.raised # "none" THEN [env |-> e, raised |-> L.raised]
        ELSE LET P == __parser__(L.tokens, e)
             IN  [env |-> P.env, raised |-> P.raised]

----------------------------------------------------------------------------
(* flatten_nested_dict, __nest__ and environment                           *)

RECURSIVE digits_of(_)
digits_of(n) ==
    LET d == <<"0", "1", "2", "3", "4", "5", "6", "7", "8", "9">>[(n % 10) + 1]
    IN  IF n < 10 THEN <<d>> ELSE Append(digits_of(n \div 10), d)

\* dict(items): a later pair with a key already met replaces its value
RECURSIVE dict_of(_, _, _)
dict_of(items, i, acc) ==
    IF i > Len(items) THEN acc
    ELSE dict_of(items, i + 1, dict_set(acc, items[i].key, items[i].val))

\* the key with the delimiter before it at the root too
new_key_rooted(parent_key, delimiter, k) == parent_key \o delimiter \o k

\* f'{parent_key}{delimiter}{k}' if parent_key else k
new_key(parent_key, delimiter, k) ==
    IF parent_key # <<>> THEN parent_key \o delimiter \o k ELSE k

RECURSIVE flatten_nested_dict(_, _, _)
RECURSIVE flatten_items(_, _, _, _, _)

\* the items list of lines 314-320, entry i of a dict or a list onwards
flatten_items(obj, i, parent_key, delimiter, items) ==
    IF i > Len(obj.val) THEN items
    ELSE LET k == IF obj.kind = "dict" THEN obj.val[i].key
                  ELSE digits_of(i - 1)
             v == IF obj.kind = "dict" THEN obj.val[i].val ELSE obj.val[i]
         IN  flatten_items(obj, i + 1, parent_key, delimiter,
                 items \o flatten_nested_dict(
                              v, new_key(parent_key, delimiter, k), delimiter))

flatten_nested_dict(obj, parent_key, delimiter) ==
    IF obj.kind \in {"dict", "list"}
    THEN dict_of(flatten_items(obj, 1, parent_key, delimiter, <<>>), 1, <<>>)
    ELSE <<[key |-> parent_key, val |-> obj]>>

\* str.split(sep) for a sep that is not empty
RECURSIVE split_loop(_, _, _, _, _)
split_loop(s, sep, i, piece, acc) ==
    IF i > Len(s) THEN Append(acc, piece)
    ELSE IF i + Len(sep) - 1 <= Len(s) /\ SubSeq(s, i, i + Len(sep) - 1) = sep
    THEN split_loop(s, sep, i + Len(sep), <<>>, Append(acc, piece))
    ELSE split_loop(s, sep, i + 1, Append(piece, s[i]), acc)

split(s, sep) == split_loop(s, sep, 1, <<>>, <<>>)

\* the chain of dicts of lines 304-308, from segment i down
RECURSIVE nest_chain(_, _, _)
nest_chain(keys, i, v) ==
    DictVal(<<[key |-> keys[i],
               val |-> IF i = Len(keys) THEN v ELSE nest_chain(keys, i + 1, v)]>>)

\* __nest__(key, value): str.split raises ValueError on an empty separator
__nest__(key, v, delimiter) ==
    IF delimiter = <<>> THEN [raised |-> "ValueError", val |-> DictVal(<<>>)]
    ELSE [raised |-> "none", val |-> nest_chain(split(key, delimiter), 1, v)]

\* os.environ[key] = v: os.environ encodes the key and the value, and only
\* a str can be encoded (TypeError otherwise); a key that holds "=" is
\* refused with ValueError
RECURSIVE environ_loop(_, _, _)
environ_loop(pairs, i, out) ==
    IF i > Len(pairs) THEN [environ |-> out, raised |-> "none"]
    ELSE IF pairs[i].val.kind # "str"
    THEN [environ |-> out, raised |-> "TypeError"]
    ELSE IF \E j \in 1..Len(pairs[i].key) : pairs[i].key[j] = "="
    THEN [environ |-> out, raised |-> "ValueError"]
    ELSE environ_loop(pairs, i + 1,
                      Append(out, [key |-> pairs[i].key, val |-> pairs[i].val.val]))

\* environment(): flatten self.env, then store each pair into os.environ
environment(e, delimiter, out) ==
    environ_loop(flatten_nested_dict(DictVal(e), <<>>, delimiter), 1, out)

----------------------------------------------------------------------------
(* One DotENV(text) in a fresh process, then environment(): the state      *)
(* machine of __init__, a step for each loop iteration.                    *)

Delimiter == <<"_">>

Alphabet ==
    {"1", ".", "a", "#", DQ, RAW, "[", "]", "{", "}", ",", "=", NL, U20AC}

Texts == UNION {[1..n -> Alphabet] : n \in 0..MaxLen}

\* the state as __tokenize__ starts on text, with DotENV.env empty
Start(text, inp) ==
    /\ content = text
    /\ maxLength = Len(text)
    /\ self_current = 0
    /\ current = 0
    /\ tokens = <<>>
    /\ ptr = 0
    /\ token_cache = <<>>
    /\ name = <<>>
    /\ value = <<>>
    /\ env = <<>>
    /\ environ = <<>>
    /\ pc = "tokenize"
    /\ raised = "none"
    /\ input = inp
    /\ live = {}
    /\ last = <<"none", 0>>
    /\ flat = <<>>
    /\ nested = <<>>
    /\ str_text = <<>>

Init == \E text \in Texts : Start(text, text)

LexVars == [content |-> content, current |-> current,
            self_current |-> self_current, tokens |-> tokens,
            raised |-> raised]

ParserVars == [tokens |-> tokens, ptr |-> ptr, token_cache |-> token_cache,
               name |-> name, value |-> value, env |-> env, pc |-> pc,
               raised |-> raised]

\* one iteration of the loop of __tokenize__ (lines 95-133)
Tokenize ==
    /\ pc = "tokenize"
    /\ current < maxLength
    /\ ~Stuck(LexVars)
    /\ LET L == tokenize_step(LexVars)
       IN  /\ current' = L.current
           /\ self_current' = L.self_current
           /\ tokens' = L.tokens
           /\ raised' = L.raised
           /\ pc' = IF L.raised # "none" THEN "raised" ELSE pc
    /\ UNCHANGED <<content, maxLength, ptr, token_cache, name, value, env,
                   environ, input, live, last, flat, nested, str_text>>

\* the loop of __tokenize__ ends; __parser__ starts, and returns at once on
\* an empty token list (lines 134-135, 150-155)
TokenizeReturn ==
    /\ pc = "tokenize"
    /\ current >= maxLength
    /\ pc' = IF tokens = <<>> THEN "done" ELSE "parser"
    /\ ptr' = 0
    /\ token_cache' = <<>>
    /\ name' = <<>>
    /\ UNCHANGED <<content, maxLength, self_current, current, tokens, value,
                   env, environ, raised, input, live, last, flat, nested,
                   str_text>>

\* one step of the loops of __parser__ (lines 156-201)
Parser ==
    /\ pc \in {"parser", "collect"}
    /\ parser_running(ParserVars)
    /\ LET P == parser_step(ParserVars)
       IN  /\ ptr' = P.ptr
           /\ token_cache' = P.token_cache
           /\ name' = P.name
           /\ value' = P.value
           /\ env' = P.env
           /\ raised' = P.raised
           /\ pc' = IF P.raised # "none" THEN "raised" ELSE P.pc
    /\ UNCHANGED <<content, maxLength, self_current, current, tokens, environ,
                   input, live, last, flat, nested, str_text>>

\* the outer loop of __parser__ ends: DotENV(text) is constructed
ParserReturn ==
    /\ pc = "parser"
    /\ ptr >= Len(tokens)
    /\ pc' = "done"
    /\ UNCHANGED <<content, maxLength, self_current, current, tokens, ptr,
                   token_cache, name, value, env, environ, raised, input,
                   live, last, flat, nested, str_text>>

\* environment() on the constructed instance (lines 325-328)
Environment ==
    /\ pc = "done"
    /\ LET r == environment(env, Delimiter, environ)
       IN  /\ environ' = r.environ
           /\ raised' = r.raised
           /\ pc' = IF r.raised # "none" THEN "raised" ELSE "exported"
    /\ UNCHANGED <<content, maxLength, self_current, current, tokens, ptr,
                   token_cache, name, value, env, input, live, last, flat,
                   nested, str_text>>

Next == Tokenize \/ TokenizeReturn \/ Parser \/ ParserReturn \/ Environment

Spec == Init /\ [][Next]_vars

----------------------------------------------------------------------------
(* Texts made of well-formed assignments, one to a line.  An assignment is *)
(* a name, the text of its value and the value that text denotes.          *)

Line(n, lit, v) == [name |-> n, lit |-> lit, denotes |-> v]

Names == {<<"x">>, <<"y", "1">>}

Literals ==
    { <<<<"1">>, FloatVal(1, 0)>>,
      <<<<"2", ".", "5", "0">>, FloatVal(25, 1)>>,
      <<<<DQ, "h", "i", DQ>>, StrVal(<<"h", "i">>)>>,
      <<<<SQ, "#", "=", " ", SQ>>, StrVal(<<"#", "=", " ">>)>>,
      <<<<"[", "1", ",", "2", "]">>,
        ListVal(<<FloatVal(1, 0), FloatVal(2, 0)>>)>>,
      <<<<"[", DQ, "a", DQ, ",", " ", "3", "]">>,
        ListVal(<<StrVal(<<"a">>), FloatVal(3, 0)>>)>>,
      <<<<"[", "]">>, ListVal(<<>>)>> }

Lines == {Line(n, l[1], l[2]) : n \in Names, l \in Literals}

LineSeqs == UNION {[1..n -> Lines] : n \in 1..MaxLines}

\* name=value, the lines joined by newlines
RECURSIVE TextOf(_, _)
TextOf(ls, i) ==
    LET t == ls[i].name \o <<"=">> \o ls[i].lit
    IN  IF i = Len(ls) THEN t ELSE t \o <<NL>> \o TextOf(ls, i + 1)

InitAssign == \E ls \in LineSeqs : Start(TextOf(ls, 1), ls)

SpecAssign == InitAssign /\ [][Next]_vars

----------------------------------------------------------------------------
(* __parser__ on the token lists __tokenize__ can return.  A Hash token is *)
(* followed by its Comment token and a Comment token follows a Hash token  *)
(* (lines 104-106); a JSON token is the last one, since __parser_json__    *)
(* runs to the end of the text.                                            *)

TokenPool ==
    { EnvToken("env", <<"a">>), EnvToken("env", <<"b">>),
      EnvToken("equal", <<"=">>), EnvToken("number", <<"1">>),
      EnvToken("text", <<"t">>), EnvToken("brackets", <<"[">>),
      EnvToken("brackets", <<"]">>), EnvToken("commas", <<",">>),
      EnvToken("hash", <<"#">>), EnvToken("comment", <<"c">>),
      EnvToken("json", <<"{", "}">>) }

Lexable(ts) ==
    \A i \in 1..Len(ts) :
        /\ ts[i].kind = "hash" => i < Len(ts) /\ ts[i + 1].kind = "comment"
        /\ ts[i].kind = "comment" => i > 1 /\ ts[i - 1].kind = "hash"
        /\ ts[i].kind = "json" => i = Len(ts)

TokenSeqs ==
    {ts \in UNION {[1..n -> TokenPool] : n \in 1..MaxTokens} : Lexable(ts)}

\* the state as __parser__ starts on a token list that is not empty
InitTokens ==
    \E ts \in TokenSeqs :
        /\ content = <<>>
        /\ maxLength = 0
        /\ self_current = 0
        /\ current = 0
        /\ tokens = ts
        /\ ptr = 0
        /\ token_cache = <<>>
        /\ name = <<>>
        /\ value = <<>>
        /\ env = <<>>
        /\ environ = <<>>
        /\ pc = "parser"
        /\ raised = "none"
        /\ input = ts
        /\ live = {}
        /\ last = <<"none", 0>>
        /\ flat = <<>>
        /\ nested = <<>>
        /\ str_text = <<>>

NextParser == Parser \/ ParserReturn

SpecTokens == InitTokens /\ [][NextParser]_vars

\* __parser__ runs on its own thread of control to its return: a step that
\* can be taken is taken
SpecTokensFair == SpecTokens /\ WF_vars(NextParser)

----------------------------------------------------------------------------
(* A session: DotENV instances constructed one after the other in one      *)
(* process, and name-value pairs set through them.  DotENV.env is a class  *)
(* attribute (line 81) and no method binds self.env, so self.env of every  *)
(* instance is that one dict.                                              *)

Instances == {1, 2}

SessionTexts ==
    { <<"x", "=", "1">>,
      <<"y", "=", DQ, "h", "i", DQ>>,
      <<"x", "=", "2", NL, "z", "=", "[", "1", "]">>,
      <<"z", "=", "3", NL, "y", "=", "{">>,
      <<"x", "=", DQ>> }

SessionKeys == {<<"x">>, <<"k">>}

SessionValues == {StrVal(<<"v">>), FloatVal(7, 0)}

\* self.env, read through instance i
InstanceEnv(i) == env

InitSession ==
    /\ content = <<>>
    /\ maxLength = 0
    /\ self_current = 0
    /\ current = 0
    /\ tokens = <<>>
    /\ ptr = 0
    /\ token_cache = <<>>
    /\ name = <<>>
    /\ value = <<>>
    /\ env = <<>>
    /\ environ = <<>>
    /\ pc = "session"
    /\ raised = "none"
    /\ input = <<>>
    /\ live = {}
    /\ last = <<"none", 0>>
    /\ flat = <<>>
    /\ nested = <<>>
    /\ str_text = <<>>

\* i = DotENV(text): __init__ to its end, or to the exception that ends it
New(i, text) ==
    /\ pc = "session"
    /\ i \notin live
    /\ LET r == __init__(text, env)
       IN  /\ env' = r.env
           /\ raised' = r.raised
           /\ live' = IF r.raised = "none" THEN live \cup {i} ELSE live
    /\ last' = <<"new", i>>
    /\ input' = text
    /\ UNCHANGED <<content, maxLength, self_current, current, tokens, ptr,
                   token_cache, name, value, environ, pc, flat, nested,
                   str_text>>

\* i[k] = v: __setitem__ (lines 299-300)
SetItem(i, k, v) ==
    /\ pc = "session"
    /\ i \in live
    /\ env' = dict_set(env, k, v)
    /\ raised' = "none"
    /\ last' = <<"set", i>>
    /\ UNCHANGED <<content, maxLength, self_current, current, tokens, ptr,
                   token_cache, name, value, environ, pc, input, live, flat,
                   nested, str_text>>

NextSession ==
    \/ \E i \in Instances, text \in SessionTexts : New(i, text)
    \/ \E i \in Instances, k \in SessionKeys, v \in SessionValues :
           SetItem(i, k, v)

SpecSession == InitSession /\ [][NextSession]_vars

----------------------------------------------------------------------------
(* Texts whose lines are assignments, parts of an array written over       *)
(* several lines, and comment lines.                                       *)

TextLines ==
    { <<"x", "=", "1">>,
      <<"y", "=", DQ, "h", DQ>>,
      <<"x", "=", "[", "1", ",">>,
      <<"2", "]">>,
      <<"#", "c">>,
      <<"#", " ", "x", "=", "2">> }

TextLineSeqs == UNION {[1..n -> TextLines] : n \in 1..(MaxLines + 1)}

\* the lines joined by newlines
RECURSIVE JoinLines(_, _)
JoinLines(ls, i) ==
    IF i > Len(ls) THEN <<>>
    ELSE IF i = Len(ls) THEN ls[i]
    ELSE ls[i] \o <<NL>> \o JoinLines(ls, i + 1)

InitComment == \E ls \in TextLineSeqs : Start(JoinLines(ls, 1), ls)

SpecComment == InitComment /\ [][Next]_vars

----------------------------------------------------------------------------
(* flatten_nested_dict on a nested mapping with one leaf path, then        *)
(* __nest__ on the pair it returns.                                        *)

MaxKeyLen == 2

KeyChars == {"a", "_"}

Keys == UNION {[1..n -> KeyChars] : n \in 0..MaxKeyLen}

Paths == UNION {[1..n -> Keys] : n \in 1..MaxDepth}

Leaves == {IntVal(1), StrVal(<<"v">>), FloatVal(5, 1)}

Delimiters == {<<>>, <<"_">>, <<".">>, <<"_", "_">>}

\* the mapping {keys[i]: {keys[i+1]: ... leaf}}
RECURSIVE Chain(_, _, _)
Chain(keys, i, leaf) ==
    IF i > Len(keys) THEN leaf
    ELSE DictVal(<<[key |-> keys[i], val |-> Chain(keys, i + 1, leaf)]>>)

InitFlatten ==
    \E keys \in Paths, leaf \in Leaves, d \in Delimiters :
        /\ content = <<>>
        /\ maxLength = 0
        /\ self_current = 0
        /\ current = 0
        /\ tokens = <<>>
        /\ ptr = 0
        /\ token_cache = <<>>
        /\ name = <<>>
        /\ value = <<>>
        /\ env = <<>>
        /\ environ = <<>>
        /\ pc = "flatten"
        /\ raised = "none"
        /\ input = [keys |-> keys, leaf |-> leaf, delimiter |-> d,
                    obj |-> Chain(keys, 1, leaf)]
        /\ live = {}
        /\ last = <<"none", 0>>
        /\ flat = <<>>
        /\ nested = <<>>
        /\ str_text = <<>>

\* flat = self.flatten_nested_dict(obj)
Flatten ==
    /\ pc = "flatten"
    /\ flat' = flatten_nested_dict(input.obj, <<>>, input.delimiter)
    /\ pc' = "nest"
    /\ UNCHANGED <<content, maxLength, self_current, current, tokens, ptr,
                   token_cache, name, value, env, environ, raised, input,
                   live, last, nested, str_text>>

\* nested = self.__nest__(key, value) for the first pair of flat
Nest ==
    /\ pc = "nest"
    /\ flat # <<>>
    /\ LET r == __nest__(flat[1].key, flat[1].val, input.delimiter)
       IN  /\ nested' = r.val
           /\ raised' = r.raised
           /\ pc' = IF r.raised # "none" THEN "raised" ELSE "nested"
    /\ UNCHANGED <<content, maxLength, self_current, current, tokens, ptr,
                   token_cache, name, value, env, environ, input, live, last,
                   flat, str_text>>

NextFlatten == Flatten \/ Nest

SpecFlatten == InitFlatten /\ [][NextFlatten]_vars

----------------------------------------------------------------------------
(* __str__ on a constructed instance.                                      *)

\* "=".join([k, v]): str.join takes str items only
str_join(k, v) ==
    IF v.kind = "str"
    THEN [raised |-> "none", line |-> k \o <<"=">> \o v.val]
    ELSE [raised |-> "TypeError", line |-> <<>>]

\* text.append("=".join([key, d[key]])) for entry i of d onwards
RECURSIVE str_append(_, _, _)
str_append(d, i, lines) ==
    IF i > Len(d) THEN [raised |-> "none", text |-> lines]
    ELSE LET r == str_join(d[i].key, d[i].val)
         IN  IF r.raised # "none" THEN [raised |-> r.raised, text |-> lines]
             ELSE str_append(d, i + 1, Append(lines, r.line))

\* The loop of lines 275-293, entry i of self.env onwards.  For a dict value
\* line 279 calls flatten_nested_dict(temp) and drops what it returns, so
\* the loop of line 280 runs over temp as it was built: the one entry.
RECURSIVE str_loop(_, _, _)
str_loop(e, i, lines) ==
    IF i > Len(e) THEN [raised |-> "none", text |-> lines]
    ELSE LET temp == <<[key |-> e[i].key, val |-> e[i].val]>>
             r == IF e[i].val.kind = "dict" THEN str_append(temp, 1, lines)
                  ELSE str_append(<<e[i]>>, 1, lines)
         IN  IF r.raised # "none" THEN r ELSE str_loop(e, i + 1, r.text)

__str__(e) == str_loop(e, 1, <<>>)

StrLines ==
    { <<"x", "=", "1">>,
      <<"y", "=", DQ, "h", DQ>>,
      <<"z", "=", DQ, DQ>>,
      <<"x", "=", "[", "1", "]">>,
      <<"y", "=", "{", DQ, "a", DQ, ":", "1", "}">> }

StrLineSeqs == UNION {[1..n -> StrLines] : n \in 1..MaxLines}

InitStr == \E ls \in StrLineSeqs : Start(JoinLines(ls, 1), ls)

\* str(d) on the constructed instance (lines 273-294)
Str ==
    /\ pc = "done"
    /\ LET r == __str__(env)
       IN  /\ str_text' = r.text
           /\ raised' = r.raised
           /\ pc' = IF r.raised # "none" THEN "raised" ELSE "printed"
    /\ UNCHANGED <<content, maxLength, self_current, current, tokens, ptr,
                   token_cache, name, value, env, environ, input, live, last,
                   flat, nested>>

NextStr == Tokenize \/ TokenizeReturn \/ Parser \/ ParserReturn \/ Str

SpecStr == InitStr /\ [][NextStr]_vars

----------------------------------------------------------------------------
(* Texts x=<literal>, the literal a run of digits and dots that starts     *)
(* with a digit, at the end of the text or with something after it.        *)

NumberLits ==
    {l \in UNION {[1..n -> {"0", "1", "."}] : n \in 1..MaxLen} : l[1] # "."}

Afters == {<<>>, <<NL>>, <<" ", "#", "c">>}

InitNumber ==
    \E l \in NumberLits, a \in Afters :
        Start(<<"x", "=">> \o l \o a, [lit |-> l, after |-> a])

\* DotENV(text) alone: __init__ from its first step to its return
NextInit == Tokenize \/ TokenizeReturn \/ Parser \/ ParserReturn

SpecNumber == InitNumber /\ [][NextInit]_vars

----------------------------------------------------------------------------
(* Texts x=[e1 e2 ...], the elements separated by commas or by spaces,     *)
(* alone or with a line y=1 after them.  An element is its text and the    *)
(* values it stands for in the array.                                      *)

MaxElems == 3

Elem(lit, vals) == [lit |-> lit, vals |-> vals]

ArrayElems ==
    { Elem(<<"3">>, <<FloatVal(3, 0)>>),
      Elem(<<"2", ".", "5">>, <<FloatVal(25, 1)>>),
      Elem(<<DQ, "a", DQ>>, <<StrVal(<<"a">>)>>),
      Elem(<<DQ, "b", DQ>>, <<StrVal(<<"b">>)>>),
      Elem(<<"b">>, <<StrVal(<<"b">>)>>),
      Elem(<<"=">>, <<StrVal(<<"=">>)>>),
      Elem(<<"#", "c", NL>>, <<StrVal(<<"#">>), StrVal(<<"c">>)>>) }

ElemSeqs == UNION {[1..n -> ArrayElems] : n \in 0..MaxElems}

Separators == {<<",">>, <<" ">>}

Rests == {<<>>, <<NL, "y", "=", "1">>}

\* the texts of the elements from element i, the separator between them
RECURSIVE ElemsText(_, _, _)
ElemsText(es, i, sep) ==
    IF i > Len(es) THEN <<>>
    ELSE IF i = Len(es) THEN es[i].lit
    ELSE es[i].lit \o sep \o ElemsText(es, i + 1, sep)

InitArray ==
    \E es \in ElemSeqs, sep \in Separators, rest \in Rests :
        Start(<<"x", "=", "[">> \o ElemsText(es, 1, sep) \o <<"]">> \o rest,
              [elems |-> es, sep |-> sep, rest |-> rest])

SpecArray == InitArray /\ [][NextInit]_vars

----------------------------------------------------------------------------
(* Texts x=<backtick>interior<backtick>, alone or with y=1 right after the *)
(* closing backtick or on the next line.                                   *)

RawChars == {"a", NL, "#", "=", DQ, "[", "{"}

Interiors == UNION {[1..n -> RawChars] : n \in 0..MaxLen}

RawRests == {<<>>, <<"y", "=", "1">>, <<NL, "y", "=", "1">>}

InitRaw ==
    \E body \in Interiors, rest \in RawRests :
        Start(<<"x", "=", RAW>> \o body \o <<RAW>> \o rest,
              [interior |-> body, rest |-> rest])

SpecRaw == InitRaw /\ [][NextInit]_vars

----------------------------------------------------------------------------
(* Claims C1 - C6 *)

\* the last line of the input that assigns the name of line i
LastOf(ls, i) ==
    CHOOSE j \in i..Len(ls) :
        /\ ls[j].name = ls[i].name
        /\ \A k \in (j + 1)..Len(ls) : ls[k].name # ls[i].name

\* C1: for every text of well-formed assignments (name=number, name="quoted
\* text", name=[array]) on lines of their own, DotENV(text) is constructed
\* without an exception and each assigned name then maps to the value of its
\* last assignment: a number as a float, a quoted text as its interior, an
\* array as the sequence of its elements; no other name is in the mapping.
C1_LastWriteWins ==
    /\ raised \notin {"IndexError", "JSONDecodeError", "NoReturn"}
    /\ pc = "done" =>
         /\ \A i \in 1..Len(input) :
              /\ HasKey(env, input[i].name)
              /\ dict_get(env, input[i].name) = input[LastOf(input, i)].denotes
         /\ Len(env) = Cardinality({input[i].name : i \in 1..Len(input)})

\* a name assigned twice, to a number and then to an array, has been parsed
C1_Witness ==
    /\ pc = "done"
    /\ Len(input) = 2
    /\ input[1].name = input[2].name
    /\ input[1].denotes.kind = "float"
    /\ input[2].denotes.kind = "list"
    /\ dict_get(env, input[2].name) = input[2].denotes

\* C2: every iteration of the dispatch loop of __tokenize__ that returns to
\* the loop has moved the cursor forward, whatever character it dispatched
\* on, so the lexer ends on every finite text.
C2_CursorAdvances ==
    [][(pc = "tokenize" /\ pc' = "tokenize") => current' > current]_vars

\* C3: no text makes the lexer read content[i] with i outside 0..len-1.
C3_ReadsInRange == raised # "IndexError"

\* where the braces opened at text[i] (an index from 1) close: the index of
\* the } at which the count of { less } is back at zero, 0 when there is none
RECURSIVE ClosingBrace(_, _, _)
ClosingBrace(text, i, depth) ==
    IF i > Len(text) THEN 0
    ELSE LET d == CASE text[i] = "{" -> depth + 1
                    [] text[i] = "}" -> depth - 1
                    [] OTHER -> depth
         IN  IF d = 0 THEN i ELSE ClosingBrace(text, i + 1, d)

\* the literal that starts at index cur (from 0) has no closing delimiter
Unterminated(text, cur) ==
    LET ch == At(text, cur)
        later == {text[j] : j \in (cur + 2)..Len(text)}
    IN  \/ ch \in {DQ, SQ, RAW} /\ ch \notin later
        \/ ch = "{" /\ ClosingBrace(text, cur + 1, 0) = 0

\* C4: when the lexer dispatches on a quote, a backtick or a { whose closing
\* delimiter does not come before the end of the text, the parse ends in the
\* UnterminatedLiteral outcome and no token is made of the rest of the text.
C4_UnterminatedLiteral ==
    [][(pc = "tokenize" /\ current < maxLength
          /\ Unterminated(content, current))
       => (raised' = "UnterminatedLiteral" /\ tokens' = tokens)]_vars

\* C5: a JSON token that starts at a { whose braces close holds the text
\* from that { to the closing } and leaves the cursor just past that }.
C5_JsonBlobEnds ==
    [][(pc = "tokenize" /\ current < maxLength /\ At(content, current) = "{"
          /\ ClosingBrace(content, current + 1, 0) # 0)
       => LET e == ClosingBrace(content, current + 1, 0)
          IN  /\ tokens' = Append(tokens,
                     EnvToken("json", SubSeq(content, current + 1, e)))
              /\ current' = e]_vars

\* str(v) of a leaf: an int as its digits, a float as its digits with the
\* point, a str as itself
RECURSIVE fraction_of(_, _)
fraction_of(m, scale) ==
    IF scale = 0 THEN <<>>
    ELSE Append(fraction_of(m \div 10, scale - 1), digits_of(m % 10)[1])

RECURSIVE Pow10(_)
Pow10(n) == IF n = 0 THEN 1 ELSE 10 * Pow10(n - 1)

stringify(v) ==
    CASE v.kind = "int" -> digits_of(v.val)
      [] v.kind = "float" ->
           digits_of(v.val[1] \div Pow10(v.val[2])) \o <<".">> \o
           (IF v.val[2] = 0 THEN <<"0">> ELSE fraction_of(v.val[1], v.val[2]))
      [] OTHER -> v.val

\* C6: environment() on a constructed instance ends without an exception and
\* has stored into os.environ, once and in order, each pair of the flattened
\* mapping with its value as a string, numbers included.
C6_ExportEveryPair ==
    [][pc = "done" =>
         LET pairs == flatten_nested_dict(DictVal(env), <<>>, Delimiter)
         IN  /\ pc' = "exported"
             /\ environ' = [i \in 1..Len(pairs) |->
                              [key |-> pairs[i].key,
                               val |-> stringify(pairs[i].val)]]]_vars

----------------------------------------------------------------------------
(* Claims C7 - C10 *)

\* C7: what is read through an instance is changed only by that instance:
\* constructing another instance, or setting a name through another
\* instance, leaves the mapping of every constructed instance as it was.
C7_InstanceOwnsEnv ==
    [][\A i \in live : last'[2] # i => InstanceEnv(i)' = InstanceEnv(i)]_vars

\* the lines that do not begin with #
CodeLines(ls) == SelectSeq(ls, LAMBDA l : l[1] # "#")

\* C8: a line that begins with # never alters a value: the parser ends with
\* the mapping it builds from the text without its comment lines, so the
\* Hash and Comment tokens are ignored in every parser state.
C8_CommentsIgnored ==
    pc = "done" => env = __init__(JoinLines(CodeLines(input), 1), <<>>).env

\* The pending-name slot and the target of section 4.2 after the first p
\* tokens, none of them a bracket: an identifier is pending until an Equal
\* token consumes it; the target is set from then to the next value token.
RECURSIVE Slot(_, _)
Slot(ts, p) ==
    IF p = 0 THEN [pending |-> FALSE, target |-> FALSE]
    ELSE LET q == Slot(ts, p - 1)
             k == ts[p].kind
         IN  CASE k = "env" -> [q EXCEPT !.pending = TRUE]
               [] k = "equal" ->
                    IF q.pending THEN [pending |-> FALSE, target |-> TRUE]
                    ELSE q
               [] k \in {"number", "text", "json"} -> [q EXCEPT !.target = FALSE]
               [] OTHER -> q

NoBrackets(ts, p) == \A j \in 1..p : ts[j].kind # "brackets"

\* C9: an Equal token met when no identifier has come since the last Equal
\* token that consumed one (or since the start) sets no target, and a value
\* token after it, no target being set, leaves the mapping as it was.
C9_EqualNothingPending ==
    [][/\ (/\ pc = "parser" /\ ptr < Len(tokens)
           /\ tokens[ptr + 1].kind = "equal"
           /\ NoBrackets(tokens, ptr)
           /\ ~Slot(tokens, ptr).pending)
          => (name' = name /\ env' = env)
       /\ (/\ pc = "parser" /\ 0 < ptr /\ ptr < Len(tokens)
           /\ tokens[ptr + 1].kind \in {"number", "text", "json"}
           /\ tokens[ptr].kind = "equal"
           /\ NoBrackets(tokens, ptr)
           /\ ~Slot(tokens, ptr - 1).pending
           /\ ~Slot(tokens, ptr - 1).target)
          => env' = env]_vars

\* the keys joined by the delimiter
RECURSIVE Join(_, _, _)
Join(keys, i, d) ==
    IF i = Len(keys) THEN keys[i] ELSE keys[i] \o d \o Join(keys, i + 1, d)

\* flatten gave the one pair (path, leaf) and __nest__ gave the mapping back
RoundTrip ==
    /\ raised = "none"
    /\ flat = <<[key |-> Join(input.keys, 1, input.delimiter),
                 val |-> input.leaf]>>
    /\ nested = input.obj

\* C10 as stated: for every nested mapping with one leaf path and every
\* delimiter, flatten gives exactly the pair (path, leaf) and __nest__ of
\* that pair gives the mapping back.
C10_RoundTripAnyKey == pc \in {"nested", "raised"} => RoundTrip

\* the delimiter is not empty, no key holds a character of it, and the
\* outermost key is not empty
Separable ==
    /\ input.delimiter # <<>>
    /\ \A i \in 1..Len(input.keys) : \A j \in 1..Len(input.keys[i]) :
           \A k \in 1..Len(input.delimiter) :
               input.keys[i][j] # input.delimiter[k]
    /\ input.keys[1] # <<>>

\* C10, amended: the round trip holds for every nested mapping with one leaf
\* path whose keys hold no character of the delimiter and whose outermost
\* key is not empty, and every delimiter that is not empty.
C10_RoundTripSeparable ==
    (pc \in {"nested", "raised"} /\ Separable) => RoundTrip

\* a two-level mapping with an empty inner key has made the round trip
C10_Witness ==
    /\ pc = "nested"
    /\ Separable
    /\ Len(input.keys) = 2
    /\ input.keys[2] = <<>>
    /\ input.delimiter = <<"_">>
    /\ nested = input.obj

----------------------------------------------------------------------------
(* Claims C11 - C20 *)

\* the names __str__ is to make a line for: the key of an entry whose value
\* is a number, a string or an array, and the flattened paths of an entry
\* whose value is a nested object
RECURSIVE LineNames(_, _, _)
LineNames(e, i, delimiter) ==
    IF i > Len(e) THEN <<>>
    ELSE LET flattened == flatten_nested_dict(DictVal(<<e[i]>>), <<>>, delimiter)
             names == IF e[i].val.kind = "dict"
                      THEN [j \in 1..Len(flattened) |-> flattened[j].key]
                      ELSE <<e[i].key>>
         IN  names \o LineNames(e, i + 1, delimiter)

\* the line is name=...
LineFor(line, n) ==
    /\ Len(line) > Len(n)
    /\ SubSeq(line, 1, Len(n) + 1) = n \o <<"=">>

\* C11: __str__ on a mapping the constructor produced never fails, and it
\* returns one name=value line for each entry whose value is a number, a
\* string or an array and one line for each flattened leaf, under its joined
\* path, of an entry whose value is a nested object.
C11_SerializeEveryKind ==
    /\ raised # "TypeError"
    /\ pc = "printed" =>
         LET names == LineNames(env, 1, Delimiter)
         IN  /\ Len(str_text) = Len(names)
             /\ \A i \in 1..Len(names) : LineFor(str_text[i], names[i])

\* C12: a construction that ends in a JSON decode error leaves no assignment
\* of its text behind: the mapping read afterwards, through any instance, is
\* the mapping as it was before that construction.
C12_JsonErrorDiscards ==
    [][(last'[1] = "new" /\ raised' = "JSONDecodeError") => env' = env]_vars

\* the Brackets token made of "[" and the one made of "]" (line 117)
Open == EnvToken("brackets", <<"[">>)
Close == EnvToken("brackets", <<"]">>)

\* C13: a "]" token met outside array collection changes nothing, and the
\* tokens after it are processed as if it were absent: on a token list with
\* no "[" token, where every "]" is a stray one, the parser ends with the
\* mapping it builds from the list without its "]" tokens.
C13_StrayCloseIgnored ==
    (pc = "done" /\ \A i \in 1..Len(tokens) : tokens[i] # Open)
        => env = __parser__(SelectSeq(tokens, LAMBDA t : t # Close), <<>>).env

\* the number the digits ds denote
RECURSIVE Decimal(_)
Decimal(ds) ==
    IF ds = <<>> THEN 0
    ELSE 10 * Decimal(SubSeq(ds, 1, Len(ds) - 1)) + DigitVal(ds[Len(ds)])

Dots(l) == {i \in 1..Len(l) : l[i] = "."}

\* the floating value of a literal with at most one dot
LitValue(l) ==
    IF Dots(l) = {} THEN FloatVal(Decimal(l), 0)
    ELSE LET p == CHOOSE i \in Dots(l) : TRUE
         IN  FloatVal(Decimal(SubSeq(l, 1, p - 1) \o SubSeq(l, p + 1, Len(l))),
                      Len(l) - p)

\* C14: x=<literal>, the literal a run of digits and dots that starts with a
\* digit, is never rejected; x is stored as the floating value of the
\* literal when it holds at most one dot and as the literal's text when it
\* holds two dots or more.
C14_DigitLedLiteral ==
    /\ raised = "none"
    /\ pc = "done" =>
         /\ HasKey(env, <<"x">>)
         /\ dict_get(env, <<"x">>) =
              IF Cardinality(Dots(input.lit)) <= 1 THEN LitValue(input.lit)
              ELSE StrVal(input.lit)

\* a literal with two dots has been stored as its text
C14_Witness ==
    /\ pc = "done"
    /\ input.lit = <<"1", ".", "0", ".">>
    /\ dict_get(env, <<"x">>) = StrVal(input.lit)

\* the values the elements stand for, in source order
RECURSIVE ElemValues(_, _)
ElemValues(es, i) ==
    IF i > Len(es) THEN <<>> ELSE es[i].vals \o ElemValues(es, i + 1)

\* C15: x=[...] assigns to x the sequence of the elements in source order, a
\* Number token as its floating value, a Commas token as nothing and every
\* other token between the brackets as its text, and clears the target: an
\* assignment on the next line goes to its own name.
C15_ArrayLiteral ==
    /\ raised = "none"
    /\ pc = "done" =>
         /\ name = <<>>
         /\ env = <<[key |-> <<"x">>,
                     val |-> ListVal(ElemValues(input.elems, 1))]>> \o
                  (IF input.rest = <<>> THEN <<>>
                   ELSE <<[key |-> <<"y">>, val |-> FloatVal(1, 0)]>>)

\* x=["a","b",3] has been parsed to ["a", "b", 3.0]
C15_Witness ==
    /\ pc = "done"
    /\ content = <<"x", "=", "[", DQ, "a", DQ, ",", DQ, "b", DQ, ",", "3", "]">>
    /\ env = <<[key |-> <<"x">>,
                val |-> ListVal(<<StrVal(<<"a">>), StrVal(<<"b">>),
                                  FloatVal(3, 0)>>)]>>

\* C16: x=<backtick>interior<backtick> stores the interior as it is written,
\* newlines and the characters that start tokens included, and the lexer
\* goes on just after the closing backtick: the tokens are x, =, the Text
\* token of the interior and then those of what follows.
C16_RawStringVerbatim ==
    /\ raised = "none"
    /\ pc = "done" =>
         LET more == input.rest # <<>>
         IN  /\ tokens = <<EnvToken("env", <<"x">>), EnvToken("equal", <<"=">>),
                           EnvToken("text", input.interior)>> \o
                         (IF more
                          THEN <<EnvToken("env", <<"y">>),
                                 EnvToken("equal", <<"=">>),
                                 EnvToken("number", <<"1">>)>>
                          ELSE <<>>)
             /\ env = <<[key |-> <<"x">>, val |-> StrVal(input.interior)]>> \o
                      (IF more
                       THEN <<[key |-> <<"y">>, val |-> FloatVal(1, 0)]>>
                       ELSE <<>>)

\* an interior with a newline, a # and a quote has been stored, and the
\* assignment written right after the closing backtick has been made
C16_Witness ==
    /\ pc = "done"
    /\ input.interior = <<"a", NL, "#", DQ>>
    /\ input.rest = <<"y", "=", "1">>
    /\ dict_get(env, <<"x">>) = StrVal(<<"a", NL, "#", DQ>>)
    /\ HasKey(env, <<"y">>)

\* The reference definition of flatten: the pairs of the scalar leaves of
\* obj in discovery order, each under its path segments (the keys of the
\* objects, the indices of the arrays) joined by the delimiter.
RECURSIVE RefPairs(_, _, _)
RECURSIVE RefItems(_, _, _, _)
RefItems(obj, i, path, d) ==
    IF i > Len(obj.val) THEN <<>>
    ELSE LET seg == IF obj.kind = "dict" THEN obj.val[i].key
                    ELSE digits_of(i - 1)
             v == IF obj.kind = "dict" THEN obj.val[i].val ELSE obj.val[i]
         IN  RefPairs(v, Append(path, seg), d) \o RefItems(obj, i + 1, path, d)

RefPairs(obj, path, d) ==
    IF obj.kind \in {"dict", "list"} THEN RefItems(obj, 1, path, d)
    ELSE <<[key |-> IF path = <<>> THEN <<>> ELSE Join(path, 1, d),
            val |-> obj]>>

\* C17: flatten_nested_dict returns the pairs of the reference definition,
\* whatever the keys are, an empty key at any level included.
C17_FlattenReference ==
    pc \in {"nest", "nested", "raised"}
        => flat = RefPairs(input.obj, <<>>, input.delimiter)

\* C18: array collection starts only at a "[" token and ends only at a "]"
\* token or when no token is left: a "]" met in the outer loop starts no
\* collection and a "[" met while collecting does not end it.
C18_CollectionBrackets ==
    [][/\ (pc = "parser" /\ pc' = "collect") => tokens[ptr + 1] = Open
       /\ (pc = "collect" /\ pc' # "collect")
            => (ptr >= Len(tokens) \/ tokens[ptr + 1] = Close)]_vars

\* C19: the parser holds one pending name at most: token_cache never has
\* more than one entry, an identifier replacing the one that is pending.
C19_OnePendingName == Len(token_cache) <= 1

\* C20: on every token list the parser ends, taking the tokens once from
\* left to right: each step of the outer loop and of the collecting loop,
\* the one on a Commas token included, moves the index one token forward,
\* no step moves it back, and the run comes to its return.
C20_ParserTerminates ==
    /\ [][/\ ptr' >= ptr
          /\ pc \in {"parser", "collect"} /\ pc' \in {"parser", "collect"}
               => ptr' = ptr + 1]_vars
    /\ <>(pc = "done")

\* an array with a comma in it, open at the end of the tokens, has been
\* collected and the parser has returned
C20_Witness ==
    /\ pc = "done"
    /\ Len(tokens) = 4
    /\ tokens[2] = Open
    /\ tokens[3].kind = "commas"
    /\ tokens[4].kind = "number"
    /\ ptr = 5

====
